---- MODULE Spec2Model ----
(***************************************************************************)
(* Model of the DNREC shellfish survey map builders:                       *)
(*   src/code/build_geojson.py           (clamming variant)                *)
(*   src/code/build_geojson_crabbing.py  (crabbing variant)                *)
(*                                                                         *)
(* Both scripts load the shared geocode cache file, walk the rows of their *)
(* CSV, resolve every row to a coordinate (cache, then Nominatim), append  *)
(* a placeholder polygon and a point per resolved row, and at normal       *)
(* completion save the cache and write the feature collection.             *)
(*                                                                         *)
(* Representation.  A Python str is a sequence of characters, so that      *)
(* strip / split / replace / + are computed character by character.  A     *)
(* character is a one-character string; a character that cannot be written *)
(* in a string here is the name of its code point ("U+000B"), and the      *)
(* texts are made of ASCII characters and of the whitespace characters.    *)
(* A float is an exact decimal number, an infinity or nan (see "Python     *)
(* float"): binary rounding and the sign of zero are left out, and the     *)
(* numbers of the model are small enough for 32-bit integers.  An md5 hex  *)
(* digest is the tagged text <<"md5", text>>: the digest is taken          *)
(* to be collision free and distinct from every plain text.                *)
(*                                                                         *)
(* Specifications.  Spec runs the scripts on input whose rows are revealed *)
(* as the loop reads them; SpecFile and SpecCells run them, and run them   *)
(* again, on one fixed input file; SpecCandidates, SpecPolygon and         *)
(* SpecResolvers call build_candidates, square_polygon and the two         *)
(* resolvers on their own.                                                 *)
(***************************************************************************)
EXTENDS Integers, Sequences, FiniteSets, TLC

(***************************************************************************)
(* Bounds of the model.                                                    *)
(***************************************************************************)
MaxRows == 2

MaxRuns == 2

(***************************************************************************)
(* Python str operations.                                                  *)
(***************************************************************************)
\* the characters str.isspace() is true of: the ones str.strip() removes
\* and str.split() splits at
Whitespace ==
    { "\t", "\n", "U+000B", "\f", "\r", "U+001C", "U+001D", "U+001E",
      "U+001F", " ", "U+0085", "U+00A0", "U+1680", "U+2000", "U+2001",
      "U+2002", "U+2003", "U+2004", "U+2005", "U+2006", "U+2007", "U+2008",
      "U+2009", "U+200A", "U+2028", "U+2029", "U+202F", "U+205F", "U+3000" }

RECURSIVE LStrip(_)
LStrip(s) ==
    IF s # <<>> /\ Head(s) \in Whitespace THEN LStrip(Tail(s)) ELSE s

RECURSIVE RStrip(_)
RStrip(s) ==
    IF s # <<>> /\ s[Len(s)] \in Whitespace
    THEN RStrip(SubSeq(s, 1, Len(s) - 1))
    ELSE s

\* str.strip()
Strip(s) == RStrip(LStrip(s))

StartsWith(s, old) ==
    /\ Len(old) <= Len(s)
    /\ SubSeq(s, 1, Len(old)) = old

\* str.replace(old, new): non-overlapping occurrences, left to right
RECURSIVE Replace(_, _, _)
Replace(s, old, new) ==
    IF s = <<>> THEN <<>>
    ELSE IF old # <<>> /\ StartsWith(s, old)
         THEN new \o Replace(SubSeq(s, Len(old) + 1, Len(s)), old, new)
         ELSE <<Head(s)>> \o Replace(Tail(s), old, new)

\* str.split(): the maximal runs of non-whitespace characters, in order
RECURSIVE SplitFrom(_, _)
SplitFrom(s, word) ==
    IF s = <<>>
    THEN (IF word = <<>> THEN <<>> ELSE <<word>>)
    ELSE IF Head(s) \in Whitespace
         THEN (IF word = <<>> THEN <<>> ELSE <<word>>) \o SplitFrom(Tail(s), <<>>)
         ELSE SplitFrom(Tail(s), Append(word, Head(s)))

Split(s) == SplitFrom(s, <<>>)

\* sep.join(words)
RECURSIVE Join(_, _)
Join(sep, words) ==
    IF words = <<>> THEN <<>>
    ELSE IF Len(words) = 1 THEN words[1]
    ELSE words[1] \o sep \o Join(sep, Tail(words))

\* " ".join(c.split())
NormalizeSpaces(c) == Join(<<" ">>, Split(c))

(***************************************************************************)
(* String literals of the two scripts.                                     *)
(***************************************************************************)
CommaDE == <<",", " ", "D", "E">>

CommaDelaware == <<",", " ", "D", "e", "l", "a", "w", "a", "r", "e">>

CommaDelawareUSA == CommaDelaware \o <<",", " ", "U", "S", "A">>

SpacePier == <<" ", "P", "i", "e", "r">>

SpaceBridge == <<" ", "B", "r", "i", "d", "g", "e">>

ContextTag == <<"D", "E", "_", "V", "I", "E", "W", "B", "O", "X", "_", "U", "S">>

(***************************************************************************)
(* Candidate generator (crabbing).                                         *)
(***************************************************************************)
\* the ten templates, before de-duplication
CandidateTemplates(geocode_name, site_name) ==
    LET base == Strip(geocode_name)
    IN  << base,
           base \o CommaDE,
           base \o CommaDelaware,
           site_name \o CommaDE,
           site_name \o CommaDelaware,
           Strip(Replace(base, SpacePier, <<>>)),
           Strip(Replace(base, SpaceBridge, <<>>)),
           Strip(Replace(site_name, SpacePier, <<>>)),
           Strip(Replace(site_name, SpaceBridge, <<>>)),
           Strip(Replace(Replace(site_name, SpacePier, <<>>), SpaceBridge, <<>>))
               \o CommaDE >>

InSeq(x, s) == \E i \in 1..Len(s) : s[i] = x

\* variant of the de-dup loop that remembers the text before normalisation
\* (`if c2 and c not in seen: seen.add(c)`)
RECURSIVE DedupRawFrom(_, _, _)
DedupRawFrom(cands, seen, out) ==
    IF cands = <<>> THEN out
    ELSE LET c == Head(cands)
             c2 == Join(<<" ">>, Split(c))
         IN  IF c2 # <<>> /\ ~InSeq(c, seen)
             THEN DedupRawFrom(Tail(cands), Append(seen, c), Append(out, c2))
             ELSE DedupRawFrom(Tail(cands), seen, out)

DedupRaw(cands, out) == DedupRawFrom(cands, <<>>, out)

\* the de-dup loop: normalise, drop blanks, keep the first occurrence
RECURSIVE DedupPreservingOrder(_, _)
DedupPreservingOrder(cands, out) ==
    IF cands = <<>> THEN out
    ELSE LET c2 == NormalizeSpaces(Head(cands))
         IN  IF c2 # <<>> /\ ~InSeq(c2, out)
             THEN DedupPreservingOrder(Tail(cands), Append(out, c2))
             ELSE DedupPreservingOrder(Tail(cands), out)

build_candidates(geocode_name, site_name) ==
    DedupPreservingOrder(CandidateTemplates(geocode_name, site_name), <<>>)

(***************************************************************************)
(* Python float.  A number is m / 10^e written with the smallest e         *)
(* (39.1 is m = 391, e = 1), or an infinity, or nan; + and - are those of  *)
(* the reals, the rounding of binary floating point is left out.           *)
(***************************************************************************)
RECURSIVE Pow10(_)
Pow10(n) == IF n = 0 THEN 1 ELSE 10 * Pow10(n - 1)

RECURSIVE Number(_, _)
Number(m, e) ==
    IF e > 0 /\ m % 10 = 0 THEN Number(m \div 10, e - 1)
    ELSE [num |-> "finite", m |-> m, e |-> e]

Infinity(sign) == [num |-> "inf", m |-> sign, e |-> 0]

NotANumber == [num |-> "nan", m |-> 0, e |-> 0]

\* the number of t thousandths
Thousandths(t) == Number(t, 3)

\* x + y
Plus(x, y) ==
    IF x.num = "nan" \/ y.num = "nan" THEN NotANumber
    ELSE IF x.num = "inf"
         THEN (IF y.num = "inf" /\ y.m # x.m THEN NotANumber ELSE x)
    ELSE IF y.num = "inf" THEN y
    ELSE LET e == IF x.e > y.e THEN x.e ELSE y.e
         IN  Number(x.m * Pow10(e - x.e) + y.m * Pow10(e - y.e), e)

\* x - y
Minus(x, y) == Plus(x, [y EXCEPT !.m = -y.m])

Digits == {"0", "1", "2", "3", "4", "5", "6", "7", "8", "9"}

DigitVal(c) ==
    CASE c = "0" -> 0 [] c = "1" -> 1 [] c = "2" -> 2 [] c = "3" -> 3
      [] c = "4" -> 4 [] c = "5" -> 5 [] c = "6" -> 6 [] c = "7" -> 7
      [] c = "8" -> 8 [] c = "9" -> 9

IsDigit(c) == c \in Digits

RECURSIVE DecimalValue(_, _)
DecimalValue(s, acc) ==
    IF s = <<>> THEN acc ELSE DecimalValue(Tail(s), 10 * acc + DigitVal(Head(s)))

\* digits, single underscores allowed between two digits ("1_000")
DigitPart(s) ==
    /\ s # <<>>
    /\ \A i \in 1..Len(s) : s[i] \in Digits \cup {"_"}
    /\ Head(s) \in Digits
    /\ s[Len(s)] \in Digits
    /\ \A i \in 1..(Len(s) - 1) : ~(s[i] = "_" /\ s[i + 1] = "_")

\* the first position of s holding a character of C, 0 if none
FirstOf(s, C) ==
    IF \E i \in 1..Len(s) : s[i] \in C
    THEN CHOOSE i \in 1..Len(s) :
            s[i] \in C /\ \A j \in 1..(i - 1) : s[j] \notin C
    ELSE 0

LowerCase(c) ==
    CASE c = "I" -> "i" [] c = "N" -> "n" [] c = "F" -> "f" [] c = "T" -> "t"
      [] c = "Y" -> "y" [] c = "A" -> "a" [] OTHER -> c

LowerText(s) == [i \in 1..Len(s) |-> LowerCase(s[i])]

\* float() does not take the separators U+001C .. U+001F for whitespace
FloatWhitespace == Whitespace \ {"U+001C", "U+001D", "U+001E", "U+001F"}

RECURSIVE FloatLStrip(_)
FloatLStrip(s) ==
    IF s # <<>> /\ Head(s) \in FloatWhitespace THEN FloatLStrip(Tail(s)) ELSE s

RECURSIVE FloatRStrip(_)
FloatRStrip(s) ==
    IF s # <<>> /\ s[Len(s)] \in FloatWhitespace
    THEN FloatRStrip(SubSeq(s, 1, Len(s) - 1))
    ELSE s

ValueError == [ok |-> FALSE]

Parsed(v) == [ok |-> TRUE, val |-> v]

\* float(text): surrounding whitespace ignored, then
\*   [sign] (inf | infinity | nan), in any case, or
\*   [sign] (digits [. [digits]] | . digits) [(e | E) [sign] digits];
\* any other text raises ValueError
ParseDecimal(text) ==
    LET t == FloatRStrip(FloatLStrip(text))
        signed == t # <<>> /\ Head(t) \in {"-", "+"}
        sign == IF t # <<>> /\ Head(t) = "-" THEN -1 ELSE 1
        body == IF signed THEN Tail(t) ELSE t
        word == LowerText(body)
        ePos == FirstOf(body, {"e", "E"})
        mant == IF ePos = 0 THEN body ELSE SubSeq(body, 1, ePos - 1)
        expo == IF ePos = 0 THEN <<>> ELSE SubSeq(body, ePos + 1, Len(body))
        eSigned == expo # <<>> /\ Head(expo) \in {"-", "+"}
        eSign == IF expo # <<>> /\ Head(expo) = "-" THEN -1 ELSE 1
        eDigits == IF eSigned THEN Tail(expo) ELSE expo
        dot == FirstOf(mant, {"."})
        ip == IF dot = 0 THEN mant ELSE SubSeq(mant, 1, dot - 1)
        fp == IF dot = 0 THEN <<>> ELSE SubSeq(mant, dot + 1, Len(mant))
        mantOk == \/ DigitPart(ip) /\ (fp = <<>> \/ DigitPart(fp))
                  \/ ip = <<>> /\ dot # 0 /\ DigitPart(fp)
        expoOk == ePos = 0 \/ DigitPart(eDigits)
        ds == SelectSeq(ip, IsDigit) \o SelectSeq(fp, IsDigit)
        scale == Len(SelectSeq(fp, IsDigit))
                 - eSign * DecimalValue(SelectSeq(eDigits, IsDigit), 0)
    IN  IF word \in {<<"i", "n", "f">>,
                     <<"i", "n", "f", "i", "n", "i", "t", "y">>}
        THEN Parsed(Infinity(sign))
        ELSE IF word = <<"n", "a", "n">> THEN Parsed(NotANumber)
        ELSE IF mantOk /\ expoOk
        THEN Parsed(IF scale >= 0
                    THEN Number(sign * DecimalValue(ds, 0), scale)
                    ELSE Number(sign * DecimalValue(ds, 0) * Pow10(-scale), 0))
        ELSE ValueError

(***************************************************************************)
(* Cache store: keys, values, the JSON cache file.                         *)
(***************************************************************************)
\* hashlib.md5(text.encode("utf-8")).hexdigest()
Md5(text) == <<"md5", text>>

\* crabbing: cache_key(query, extra)
cache_key(query, extra) == Md5(query \o <<"|">> \o extra)

\* clamming: the key computed at the top of geocode(query, cache)
geocode_key(query) == Md5(query)

\* Python None
None == [py |-> "None"]

\* json.dump of one cache value: None is written as null, a dict as an object
ToJson(v) ==
    IF v.py = "None" THEN [json |-> "null"]
    ELSE IF "query_used" \in DOMAIN v
         THEN [json |-> "object", lat |-> v.lat, lon |-> v.lon,
               display_name |-> v.display_name, query_used |-> v.query_used]
         ELSE [json |-> "object", lat |-> v.lat, lon |-> v.lon,
               display_name |-> v.display_name]

\* json.load of one cache value
FromJson(j) ==
    IF j.json = "null" THEN None
    ELSE IF "query_used" \in DOMAIN j
         THEN [py |-> "dict", lat |-> j.lat, lon |-> j.lon,
               display_name |-> j.display_name, query_used |-> j.query_used]
         ELSE [py |-> "dict", lat |-> j.lat, lon |-> j.lon,
               display_name |-> j.display_name]

NoFile == [file |-> "absent"]

EmptyDict == <<>>

\* variant of load_cache that starts every run from an empty mapping
load_cache_ignoring_file(file) == EmptyDict

\* load_cache(): the parsed file, or {} when the file does not exist
load_cache(file) ==
    IF file.file = "absent" THEN EmptyDict
    ELSE [k \in DOMAIN file.entries |-> FromJson(file.entries[k])]

\* variant of save_cache that persists matches only, not the None markers
save_cache_matches_only(c) ==
    [file |-> "json",
     entries |-> [k \in {x \in DOMAIN c : c[x].py # "None"} |-> ToJson(c[k])]]

\* save_cache(cache): the file is rewritten with the whole mapping
save_cache(c) ==
    [file |-> "json", entries |-> [k \in DOMAIN c |-> ToJson(c[k])]]

\* variant of the cache test that takes a cached None for a missing key
\* (`if cache.get(key):`)
KeyInCacheTruthy(k, c) == k \in DOMAIN c /\ c[k].py # "None"

\* `key in cache`
KeyInCache(k, c) == k \in DOMAIN c

\* `cache[key] = value`
DictSet(c, k, v) == [x \in DOMAIN c \cup {k} |-> IF x = k THEN v ELSE c[x]]

(***************************************************************************)
(* Geocode client: what one request to the provider can return.            *)
(***************************************************************************)
\* a match as the provider sends it: lat and lon are text
Match1 ==
    [lat |-> <<"3", "9", ".", "0">>, lon |-> <<"-", "7", "5", ".", "3">>,
     display_name |-> <<"x">>]

\* r.json(): an empty list, or a list holding the one best match (limit = 1)
Responses == {<<>>, <<Match1>>}

\* data[0].get("display_name", "")
DisplayName(m) == IF "display_name" \in DOMAIN m THEN m.display_name ELSE <<>>

\* the record geocode() stores and returns for a match
ClamResult(data) ==
    [py |-> "dict", lat |-> ParseDecimal(data[1].lat).val,
     lon |-> ParseDecimal(data[1].lon).val,
     display_name |-> DisplayName(data[1])]

\* the record geocode_with_fallbacks() stores and returns for a match
CrabResult(data, q) ==
    [py |-> "dict", lat |-> ParseDecimal(data[1].lat).val,
     lon |-> ParseDecimal(data[1].lon).val,
     display_name |-> DisplayName(data[1]), query_used |-> q]

(***************************************************************************)
(* The two resolvers as functions of their arguments and of what the       *)
(* provider answers: an answer is a response, or the exception that        *)
(* requests.get / raise_for_status raises.  A call gives whether it        *)
(* raised, what it returned, the cache it leaves and the queries it sent.  *)
(***************************************************************************)
Raised == [ok |-> FALSE]

Answered(data) == [ok |-> TRUE, data |-> data]

Answers == {Raised} \cup {Answered(data) : data \in Responses}

Outcome(raised, result, c, sent) ==
    [raised |-> raised, result |-> result, cache |-> c, requests |-> sent]

\* variant of geocode that does not record a not-found in the cache
geocode_forgets_not_found(query, c, answer) ==
    LET key == geocode_key(query)
    IN  IF KeyInCache(key, c) THEN Outcome(FALSE, c[key], c, <<>>)
        ELSE IF ~answer.ok THEN Outcome(TRUE, None, c, <<query>>)
        ELSE IF answer.data = <<>> THEN Outcome(FALSE, None, c, <<query>>)
        ELSE Outcome(FALSE, ClamResult(answer.data),
                     DictSet(c, key, ClamResult(answer.data)), <<query>>)

\* clamming: geocode(query, cache)
geocode(query, c, answer) ==
    LET key == geocode_key(query)
    IN  IF KeyInCache(key, c) THEN Outcome(FALSE, c[key], c, <<>>)
        ELSE IF ~answer.ok THEN Outcome(TRUE, None, c, <<query>>)
        ELSE IF answer.data = <<>>
             THEN Outcome(FALSE, None, DictSet(c, key, None), <<query>>)
             ELSE Outcome(FALSE, ClamResult(answer.data),
                          DictSet(c, key, ClamResult(answer.data)), <<query>>)

\* the for loop of geocode_with_fallbacks from the given candidates on;
\* provider[q] is the answer to a request for q
RECURSIVE FallbacksFrom(_, _, _, _)
FallbacksFrom(cands, c, provider, sent) ==
    IF cands = <<>> THEN Outcome(FALSE, None, c, sent)
    ELSE LET q == Strip(Head(cands))
             k == cache_key(q, ContextTag)
         IN  IF q = <<>> THEN FallbacksFrom(Tail(cands), c, provider, sent)
             ELSE IF KeyInCache(k, c) THEN Outcome(FALSE, c[k], c, sent)
             ELSE IF ~provider[q].ok
                  THEN Outcome(TRUE, None, c, Append(sent, q))
             ELSE IF provider[q].data = <<>>
                  THEN FallbacksFrom(Tail(cands), DictSet(c, k, None),
                                     provider, Append(sent, q))
             ELSE Outcome(FALSE, CrabResult(provider[q].data, q),
                          DictSet(c, k, CrabResult(provider[q].data, q)),
                          Append(sent, q))

\* crabbing: geocode_with_fallbacks(candidates, cache)
geocode_with_fallbacks(cands, c, provider) ==
    FallbacksFrom(cands, c, provider, <<>>)

(***************************************************************************)
(* Geometry builder.                                                       *)
(***************************************************************************)
\* dlat = 0.01
DLAT == Number(1, 2)

\* dlon = 0.015
DLON == Number(15, 3)

\* variant of square_polygon that leaves the ring open: the first corner is
\* not repeated at the end
square_polygon_open(lat, lon) ==
    << <<Minus(lon, DLON), Minus(lat, DLAT)>>,
       <<Plus(lon, DLON), Minus(lat, DLAT)>>,
       <<Plus(lon, DLON), Plus(lat, DLAT)>>,
       <<Minus(lon, DLON), Plus(lat, DLAT)>> >>

square_polygon(lat, lon) ==
    << <<Minus(lon, DLON), Minus(lat, DLAT)>>,
       <<Plus(lon, DLON), Minus(lat, DLAT)>>,
       <<Plus(lon, DLON), Plus(lat, DLAT)>>,
       <<Minus(lon, DLON), Plus(lat, DLAT)>>,
       <<Minus(lon, DLON), Minus(lat, DLAT)>> >>

PolygonFeature(zone_id, zone_name, site_name, lat, lon) ==
    [type |-> "Feature",
     properties |-> [zone_id |-> zone_id, zone_name |-> zone_name,
                     site_name |-> site_name, polygon_id |-> "A"],
     geometry |-> [type |-> "Polygon",
                   coordinates |-> <<square_polygon(lat, lon)>>]]

PointFeature(zone_id, zone_name, site_name, lat, lon) ==
    [type |-> "Feature",
     properties |-> [zone_id |-> zone_id, zone_name |-> zone_name,
                     site_name |-> site_name, feature_type |-> "site_point"],
     geometry |-> [type |-> "Point", coordinates |-> <<lon, lat>>]]

\* variant of the loop body that appends the polygon but not the point
SiteFeaturesPolygonOnly(row, lat, lon) ==
    << PolygonFeature(Strip(row.zone_id), Strip(row.zone_name),
                      Strip(row.site_name), lat, lon) >>

\* the two features.append calls of one loop iteration
SiteFeatures(row, lat, lon) ==
    << PolygonFeature(Strip(row.zone_id), Strip(row.zone_name),
                      Strip(row.site_name), lat, lon),
       PointFeature(Strip(row.zone_id), Strip(row.zone_name),
                    Strip(row.site_name), lat, lon) >>

(***************************************************************************)
(* Input rows.  A cell of the optional lat / lon columns is a missing      *)
(* value (NaN), a number, or text (the column holds text as soon as one of *)
(* its cells is not numeric).                                              *)
(***************************************************************************)
NaNCell == [cell |-> "nan"]

NumCell(v) == [cell |-> "num", val |-> v]

TextCell(t) == [cell |-> "str", text |-> t]

\* pd.notna(x)
NotNa(c) == c.cell # "nan"

\* float(row["lat"]) on a cell that passed pd.notna
Float(c) ==
    IF c.cell = "num" THEN Parsed(c.val) ELSE ParseDecimal(c.text)

\* variant of the manual-coordinate block that tests the latitude only and
\* takes 0 for a longitude it cannot read
ManualCoordsLatOnly(row, cols) ==
    IF "lat" \in cols /\ "lon" \in cols
    THEN IF NotNa(row.lat) /\ Float(row.lat).ok
         THEN [py |-> "coords", lat |-> Float(row.lat).val,
               lon |-> IF NotNa(row.lon) /\ Float(row.lon).ok
                       THEN Float(row.lon).val ELSE Number(0, 0)]
         ELSE None
    ELSE None

\* variant of the manual-coordinate block that never uses the columns
ManualCoordsIgnored(row, cols) == None

\* crabbing main, the optional manual coordinates of a row: None unless both
\* columns exist, both cells are present and both parse
ManualCoords(row, cols) ==
    IF "lat" \in cols /\ "lon" \in cols
    THEN IF NotNa(row.lat) /\ NotNa(row.lon)
         THEN IF Float(row.lat).ok /\ Float(row.lon).ok
              THEN [py |-> "coords", lat |-> Float(row.lat).val,
                    lon |-> Float(row.lon).val]
              ELSE None
         ELSE None
    ELSE None

Name_a == <<"a">>

Name_aPier == <<"a", " ", "P", "i", "e", "r">>

\* the rows a CSV of the model is made of: one whose manual longitude is
\* malformed, one whose manual coordinates are valid
RowBadLon ==
    [zone_id |-> <<"Z", "1">>, zone_name |-> <<"N">>, site_name |-> Name_a,
     geocode_name |-> Name_a, lat |-> NumCell(Thousandths(39100)),
     lon |-> TextCell(<<"a", "b", "c">>)]

RowManual ==
    [zone_id |-> <<"Z", "2">>, zone_name |-> <<"S", " ">>,
     site_name |-> Name_aPier \o <<" ">>, geocode_name |-> Name_aPier,
     lat |-> TextCell(<<"3", "9", ".", "1">>),
     lon |-> NumCell(Thousandths(-75200))]

Rows == {RowBadLon, RowManual}

Smith == <<"S", "m", "i", "t", "h">>

SmithPier == Smith \o SpacePier

SmithLanding == Smith \o <<" ", "L", "a", "n", "d", "i", "n", "g">>

\* the row of the worked example; where the file has the optional columns,
\* its latitude cell is empty
RowSmith ==
    [zone_id |-> <<"Z", "1">>,
     zone_name |-> <<"N", "o", "r", "t", "h", " ", "B", "a", "y">>,
     site_name |-> SmithLanding, geocode_name |-> SmithPier,
     lat |-> NaNCell, lon |-> NumCell(Thousandths(-75200))]

\* the rows the files of FixedFiles are taken from, in this order
FileRows == <<RowSmith, RowManual>>

\* the subsequences of s: any of its elements, in its order
RECURSIVE SubSeqs(_)
SubSeqs(s) ==
    IF s = <<>> THEN {<<>>}
    ELSE SubSeqs(Tail(s)) \cup {<<Head(s)>> \o t : t \in SubSeqs(Tail(s))}

\* required = {"zone_id", "zone_name", "site_name", "geocode_name"}
RequiredColumns == {"zone_id", "zone_name", "site_name", "geocode_name"}

\* the header with the required columns only, and the one that has the
\* optional lat and lon columns as well
PlainColumns == RequiredColumns

ManualColumns == RequiredColumns \cup {"lat", "lon"}

\* set(df.columns) of the CSVs of the model: the two complete headers, and
\* headers that lack required columns
ColumnSets ==
    { PlainColumns, ManualColumns,
      {"zone_id", "zone_name", "site_name"},
      {"zone_id", "geocode_name", "lat", "lon"}, {} }

Variants == {"clamming", "crabbing"}

\* df = pd.read_csv(IN_CSV): a file whose rows are any rows of Rows, revealed
\* as the loop reads them, or a file holding the given rows
AnyCsv == [input |-> "any"]

FixedCsv(rs) == [input |-> "fixed", rows |-> rs]

\* what a cell of the lat column, and of the lon column, may hold: nothing,
\* a number, the text of a number, other text
LatCells ==
    {NaNCell, NumCell(Thousandths(39100)), TextCell(<<"3", "9", ".", "1">>),
     TextCell(<<"3", "9", ".", "1", "0", "0", "0">>), TextCell(<<".", "5">>),
     TextCell(<<"3", "_", "9">>), TextCell(<<"i", "n", "f">>),
     TextCell(<<"3", "9", ".", "1", "U+001C">>), TextCell(<<"a", "b", "c">>)}

LonCells ==
    {NaNCell, NumCell(Thousandths(-75200)),
     TextCell(<<"-", "7", "5", ".", "2">>),
     TextCell(<<"-", "7", "5", ".", "2", "\r">>),
     TextCell(<<"-", "7", ".", "5", "2", "E", "1">>),
     TextCell(<<"1", "_">>), TextCell(<<"a", "b", "c">>)}

CellRow(lat, lon) ==
    [zone_id |-> <<"Z", "1">>, zone_name |-> <<"N">>, site_name |-> Name_a,
     geocode_name |-> Name_a, lat |-> lat, lon |-> lon]

\* the one-row input files, one for every pair of cells
CellFiles ==
    {FixedCsv(<<CellRow(lat, lon)>>) : lat \in LatCells, lon \in LonCells}

\* the input files of at most MaxRows rows
FixedFiles ==
    {FixedCsv(rs) : rs \in {t \in SubSeqs(FileRows) : Len(t) <= MaxRows}}

NoRun == [run |-> "none"]

NoCall == [fn |-> "none"]

(***************************************************************************)
(* State.                                                                  *)
(*   cacheFile   ../data/geocode_cache.json, shared by both scripts        *)
(*   outFile     the GeoJSON output file of each variant                   *)
(*   pc          "idle" before the first run, "loop" at the top of the row *)
(*               loop, "resolve" inside geocode_with_fallbacks, "done"     *)
(*               after normal completion, "crashed" after the uncaught     *)
(*               exception of a request, "rejected" after the ValueError   *)
(*               of the column check                                       *)
(*   variant     the script being run                                      *)
(*   columns     set(df.columns): the columns of the CSV of this run       *)
(*   rows        the rows iterated so far in this run, the last one being  *)
(*               the row in process                                        *)
(*   cache       the in-memory dict                                        *)
(*   features    the list of features built so far                         *)
(*   candidates  the candidate list of the row in process (crabbing)       *)
(*   ci          the position of the for loop in candidates                *)
(*   log         what this run did so far: cache tests, requests, sleeps,  *)
(*               prints, file writes, in order                             *)
(*   runs        the number of runs started                                *)
(*   past        history: the keys whose lookup gave not-found in a run    *)
(*               before this one, each with whether that run completed     *)
(*               normally                                                  *)
(*   csv         the input file: AnyCsv where its rows are revealed as the *)
(*               loop reads them, FixedCsv(rs) where the file is the same  *)
(*               sequence of rows rs in every run                          *)
(*   prev        history, kept where the input file is fixed: the variant  *)
(*               and the columns of the run before this one if it          *)
(*               completed normally, NoRun otherwise                       *)
(*   call        the function call under examination in the function-level *)
(*               specifications: its arguments and what it returned        *)
(***************************************************************************)
VARIABLES cacheFile, outFile, pc, variant, columns, rows, cache, features,
          candidates, ci, log, runs, past, csv, prev, call

vars == <<cacheFile, outFile, pc, variant, columns, rows, cache, features,
          candidates, ci, log, runs, past, csv, prev, call>>

\* the state of the program before the first run, whatever the input file
InitProgram ==
    /\ cacheFile = NoFile
    /\ outFile = [v \in Variants |-> NoFile]
    /\ pc = "idle"
    /\ variant = "clamming"
    /\ columns = PlainColumns
    /\ rows = <<>>
    /\ cache = EmptyDict
    /\ features = <<>>
    /\ candidates = <<>>
    /\ ci = 1
    /\ log = <<>>
    /\ runs = 0
    /\ past = {}
    /\ prev = NoRun
    /\ call = NoCall

Init ==
    /\ InitProgram
    /\ csv = AnyCsv

(***************************************************************************)
(* Events of the log.                                                      *)
(***************************************************************************)
EvLoad == [ev |-> "load_cache"]

EvRow(i) == [ev |-> "row", idx |-> i]

EvLookup(k, present) == [ev |-> "lookup", key |-> k, present |-> present]

EvRequest(k, q, outcome) ==
    [ev |-> "request", key |-> k, query |-> q, outcome |-> outcome]

EvHit(k, v) == [ev |-> "hit", key |-> k, value |-> v]

EvSleep == [ev |-> "sleep"]

EvNotFound(i) == [ev |-> "print_not_found", idx |-> i]

EvSave == [ev |-> "save_cache"]

EvWrite == [ev |-> "write_geojson"]

\* the keys whose lookup gave not-found in the run the log is of
NotFoundKeys(l) ==
    {l[i].key : i \in {j \in 1..Len(l) :
        \/ l[j].ev = "request" /\ l[j].outcome = "empty"
        \/ l[j].ev = "hit" /\ l[j].value.py = "None"}}

\* a run is in progress
Running == pc \in {"loop", "resolve"}

\* `for _, row in df.iterrows()`: the rows the next iteration may read
NextRows ==
    IF csv.input = "any" THEN Rows
    ELSE IF Len(rows) < Len(csv.rows) THEN {csv.rows[Len(rows) + 1]}
    ELSE {}

\* the loop has read every row of the file
EndOfCsv == IF csv.input = "any" THEN TRUE ELSE Len(rows) = Len(csv.rows)

(***************************************************************************)
(* main(): start of a run, up to the row loop.                             *)
(***************************************************************************)
\* the history variables at the start of a run
StartHistory ==
    /\ past' = past \cup {[key |-> k, saved |-> (pc = "done")] :
                               k \in NotFoundKeys(log)}
    /\ prev' = IF csv.input = "fixed" /\ pc = "done"
               THEN [run |-> "completed", variant |-> variant,
                     columns |-> columns]
               ELSE NoRun

\* `missing = required - set(df.columns)` is empty: the run loads the cache
\* and enters the loop
StartRun(v, cols) ==
    /\ ~Running
    /\ runs < MaxRuns
    /\ RequiredColumns \ cols = {}
    /\ runs' = runs + 1
    /\ variant' = v
    /\ columns' = cols
    /\ cache' = load_cache(cacheFile)
    /\ features' = <<>>
    /\ rows' = <<>>
    /\ candidates' = <<>>
    /\ ci' = 1
    /\ log' = <<EvLoad>>
    /\ pc' = "loop"
    /\ StartHistory
    /\ UNCHANGED <<cacheFile, outFile, csv, call>>

\* `if missing: raise ValueError(...)`: the run ends before load_cache()
StartFails(v, cols) ==
    /\ ~Running
    /\ runs < MaxRuns
    /\ RequiredColumns \ cols # {}
    /\ runs' = runs + 1
    /\ variant' = v
    /\ columns' = cols
    /\ cache' = EmptyDict
    /\ features' = <<>>
    /\ rows' = <<>>
    /\ candidates' = <<>>
    /\ ci' = 1
    /\ log' = <<>>
    /\ pc' = "rejected"
    /\ StartHistory
    /\ UNCHANGED <<cacheFile, outFile, csv, call>>

\* python build_geojson.py, on a CSV with the required columns
StartClamming == \E cols \in ColumnSets : StartRun("clamming", cols)

\* python build_geojson.py, on a CSV that lacks a required column
ClammingRejected == \E cols \in ColumnSets : StartFails("clamming", cols)

\* python build_geojson_crabbing.py, on a CSV with the required columns
StartCrabbing == \E cols \in ColumnSets : StartRun("crabbing", cols)

\* python build_geojson_crabbing.py, on a CSV that lacks a required column
CrabbingRejected == \E cols \in ColumnSets : StartFails("crabbing", cols)

\* the rest of a loop iteration once the resolver returned `result`:
\* sleep, then either print NOT FOUND and continue or append the two features
AfterResolve(row, idx, result, events) ==
    /\ log' = log \o events \o <<EvSleep>>
                 \o (IF result.py = "None" THEN <<EvNotFound(idx)>> ELSE <<>>)
    /\ features' = IF result.py = "None" THEN features
                   ELSE features \o SiteFeatures(row, result.lat, result.lon)
    /\ pc' = "loop"

\* variant of the failure path that saves the cache before leaving
\* (a try/finally around the loop)
CrashSaving(events) ==
    /\ log' = log \o events
    /\ pc' = "crashed"
    /\ cacheFile' = save_cache(cache)
    /\ UNCHANGED <<outFile, features, past, csv, prev, call>>

\* an uncaught exception leaves main: nothing after the loop is executed
Crash(events) ==
    /\ log' = log \o events
    /\ pc' = "crashed"
    /\ UNCHANGED <<cacheFile, outFile, features, past, csv, prev, call>>

\* variant of the end of main that writes the feature collection but does
\* not save the cache
CompleteWithoutSave ==
    /\ pc = "loop"
    /\ EndOfCsv
    /\ outFile' = [outFile EXCEPT ![variant] =
                      [file |-> "json",
                       geo |-> [type |-> "FeatureCollection", features |-> features]]]
    /\ log' = log \o <<EvWrite>>
    /\ pc' = "done"
    /\ UNCHANGED <<cacheFile, variant, columns, rows, cache, features,
                   candidates, ci, runs, past, csv, prev, call>>

\* after the loop: save_cache(cache), then the feature collection is written
Complete ==
    /\ pc = "loop"
    /\ EndOfCsv
    /\ cacheFile' = save_cache(cache)
    /\ outFile' = [outFile EXCEPT ![variant] =
                      [file |-> "json",
                       geo |-> [type |-> "FeatureCollection", features |-> features]]]
    /\ log' = log \o <<EvSave, EvWrite>>
    /\ pc' = "done"
    /\ UNCHANGED <<variant, columns, rows, cache, features, candidates, ci,
                   runs, past, csv, prev, call>>

(***************************************************************************)
(* Clamming: one iteration of the row loop, geocode(query, cache) inlined. *)
(***************************************************************************)
ClamQuery(row) == Strip(row.geocode_name) \o CommaDelawareUSA

ClamNextRow(row) ==
    /\ pc = "loop"
    /\ variant = "clamming"
    /\ Len(rows) < MaxRows
    /\ rows' = Append(rows, row)

\* key in cache: the cached value is returned, no request
ClamCached ==
    \E row \in NextRows :
        LET k == geocode_key(ClamQuery(row))
        IN  /\ ClamNextRow(row)
            /\ KeyInCache(k, cache)
            /\ AfterResolve(row, Len(rows) + 1, cache[k],
                   <<EvRow(Len(rows) + 1), EvLookup(k, TRUE), EvHit(k, cache[k])>>)
            /\ UNCHANGED <<cacheFile, outFile, variant, columns, cache,
                           candidates, ci, runs, past, csv, prev, call>>

\* requests.get or raise_for_status raises
ClamRequestFails ==
    \E row \in NextRows :
        LET q == ClamQuery(row)
            k == geocode_key(q)
        IN  /\ ClamNextRow(row)
            /\ ~KeyInCache(k, cache)
            /\ Crash(<<EvRow(Len(rows) + 1), EvLookup(k, FALSE),
                       EvRequest(k, q, "error")>>)
            /\ UNCHANGED <<variant, columns, cache, candidates, ci, runs>>

\* the provider returns no match: cache[key] = None, return None
ClamNotFound ==
    \E row \in NextRows :
        LET q == ClamQuery(row)
            k == geocode_key(q)
        IN  /\ ClamNextRow(row)
            /\ ~KeyInCache(k, cache)
            /\ cache' = DictSet(cache, k, None)
            /\ AfterResolve(row, Len(rows) + 1, None,
                   <<EvRow(Len(rows) + 1), EvLookup(k, FALSE),
                     EvRequest(k, q, "empty")>>)
            /\ UNCHANGED <<cacheFile, outFile, variant, columns, candidates,
                           ci, runs, past, csv, prev, call>>

\* the provider returns a match: it is cached and returned
ClamFound ==
    \E row \in NextRows :
        LET q == ClamQuery(row)
            k == geocode_key(q)
        IN  /\ ClamNextRow(row)
            /\ ~KeyInCache(k, cache)
            /\ \E data \in Responses :
                /\ data # <<>>
                /\ cache' = DictSet(cache, k, ClamResult(data))
                /\ AfterResolve(row, Len(rows) + 1, ClamResult(data),
                       <<EvRow(Len(rows) + 1), EvLookup(k, FALSE),
                         EvRequest(k, q, "match")>>)
            /\ UNCHANGED <<cacheFile, outFile, variant, columns, candidates,
                           ci, runs, past, csv, prev, call>>

(***************************************************************************)
(* Crabbing: the row loop and geocode_with_fallbacks(candidates, cache).   *)
(***************************************************************************)
CrabNextRow(row) ==
    /\ pc = "loop"
    /\ variant = "crabbing"
    /\ Len(rows) < MaxRows
    /\ rows' = Append(rows, row)

\* the first position from i on whose candidate is not blank once stripped
\* (`if not q: continue`), or Len + 1
RECURSIVE NextCandidate(_, _)
NextCandidate(cands, i) ==
    IF i > Len(cands) THEN i
    ELSE IF Strip(cands[i]) = <<>> THEN NextCandidate(cands, i + 1)
    ELSE i

\* valid manual coordinates: the two features are built from them directly
CrabManual ==
    \E row \in NextRows :
        LET m == ManualCoords(row, columns)
        IN  /\ CrabNextRow(row)
            /\ m.py # "None"
            /\ features' = features \o SiteFeatures(row, m.lat, m.lon)
            /\ log' = Append(log, EvRow(Len(rows) + 1))
            /\ UNCHANGED <<cacheFile, outFile, pc, variant, columns, cache,
                           candidates, ci, runs, past, csv, prev, call>>

\* no usable manual coordinates: build the candidates and enter the resolver
CrabBeginResolve ==
    \E row \in NextRows :
        /\ CrabNextRow(row)
        /\ ManualCoords(row, columns).py = "None"
        /\ candidates' = build_candidates(Strip(row.geocode_name),
                                          Strip(row.site_name))
        /\ ci' = NextCandidate(candidates', 1)
        /\ log' = Append(log, EvRow(Len(rows) + 1))
        /\ pc' = "resolve"
        /\ UNCHANGED <<cacheFile, outFile, variant, columns, cache, features,
                       runs, past, csv, prev, call>>

CurrentRow == rows[Len(rows)]

CurrentQuery == Strip(candidates[ci])

CurrentKey == cache_key(CurrentQuery, ContextTag)

AtCandidate ==
    /\ pc = "resolve"
    /\ ci <= Len(candidates)

\* `if k in cache: return cache[k]`, a dict or None
CrabCached ==
    /\ AtCandidate
    /\ KeyInCache(CurrentKey, cache)
    /\ AfterResolve(CurrentRow, Len(rows), cache[CurrentKey],
           <<EvLookup(CurrentKey, TRUE), EvHit(CurrentKey, cache[CurrentKey])>>)
    /\ UNCHANGED <<cacheFile, outFile, variant, columns, rows, cache,
                   candidates, ci, runs, past, csv, prev, call>>

\* nominatim_search raises
CrabRequestFails ==
    /\ AtCandidate
    /\ ~KeyInCache(CurrentKey, cache)
    /\ Crash(<<EvLookup(CurrentKey, FALSE),
               EvRequest(CurrentKey, CurrentQuery, "error")>>)
    /\ UNCHANGED <<variant, columns, rows, cache, candidates, ci, runs>>

\* variant of the no-match branch that gives up at the first candidate
\* without a match (`return None` in place of `continue`)
CrabNotFoundReturn ==
    /\ AtCandidate
    /\ ~KeyInCache(CurrentKey, cache)
    /\ cache' = DictSet(cache, CurrentKey, None)
    /\ AfterResolve(CurrentRow, Len(rows), None,
           <<EvLookup(CurrentKey, FALSE),
             EvRequest(CurrentKey, CurrentQuery, "empty")>>)
    /\ UNCHANGED <<cacheFile, outFile, variant, columns, rows, candidates,
                   ci, runs, past, csv, prev, call>>

\* no match: cache[k] = None, continue with the next candidate
CrabNotFound ==
    /\ AtCandidate
    /\ ~KeyInCache(CurrentKey, cache)
    /\ cache' = DictSet(cache, CurrentKey, None)
    /\ ci' = NextCandidate(candidates, ci + 1)
    /\ log' = log \o <<EvLookup(CurrentKey, FALSE),
                       EvRequest(CurrentKey, CurrentQuery, "empty")>>
    /\ UNCHANGED <<cacheFile, outFile, pc, variant, columns, rows, features,
                   candidates, runs, past, csv, prev, call>>

\* variant of the match branch that caches the match and goes on to the next
\* candidate instead of returning
CrabFoundContinue ==
    /\ AtCandidate
    /\ ~KeyInCache(CurrentKey, cache)
    /\ \E data \in Responses :
        /\ data # <<>>
        /\ cache' = DictSet(cache, CurrentKey, CrabResult(data, CurrentQuery))
    /\ ci' = NextCandidate(candidates, ci + 1)
    /\ log' = log \o <<EvLookup(CurrentKey, FALSE),
                       EvRequest(CurrentKey, CurrentQuery, "match")>>
    /\ UNCHANGED <<cacheFile, outFile, pc, variant, columns, rows, features,
                   candidates, runs, past, csv, prev, call>>

\* a match: it is cached and returned
CrabFound ==
    /\ AtCandidate
    /\ ~KeyInCache(CurrentKey, cache)
    /\ \E data \in Responses :
        /\ data # <<>>
        /\ cache' = DictSet(cache, CurrentKey, CrabResult(data, CurrentQuery))
        /\ AfterResolve(CurrentRow, Len(rows), CrabResult(data, CurrentQuery),
               <<EvLookup(CurrentKey, FALSE),
                 EvRequest(CurrentKey, CurrentQuery, "match")>>)
    /\ UNCHANGED <<cacheFile, outFile, variant, columns, rows, candidates,
                   ci, runs, past, csv, prev, call>>

\* the for loop ends: return None
CrabExhausted ==
    /\ pc = "resolve"
    /\ ci > Len(candidates)
    /\ AfterResolve(CurrentRow, Len(rows), None, <<>>)
    /\ UNCHANGED <<cacheFile, outFile, variant, columns, rows, cache,
                   candidates, ci, runs, past, csv, prev, call>>

Next ==
    \/ StartClamming
    \/ ClammingRejected
    \/ StartCrabbing
    \/ CrabbingRejected
    \/ ClamCached
    \/ ClamRequestFails
    \/ ClamNotFound
    \/ ClamFound
    \/ CrabManual
    \/ CrabBeginResolve
    \/ CrabCached
    \/ CrabRequestFails
    \/ CrabNotFound
    \/ CrabFound
    \/ CrabExhausted
    \/ Complete

Spec == Init /\ [][Next]_vars

(***************************************************************************)
(* build_candidates called on its own, on any two names of Names.          *)
(***************************************************************************)
Names ==
    { <<>>, <<" ">>, <<"a">>, <<"a", " ", "b">>, <<"a", " ", " ", "b">>,
      <<" ", "a", "\t">>, Name_aPier, <<"a">> \o SpaceBridge,
      Name_aPier \o SpaceBridge, SmithPier, SmithLanding,
      <<"a", "\r", "b">>, <<"U+00A0", "a", "\f">>, <<"U+001C">> }

CallBuildCandidates ==
    /\ \E g \in Names, n \in Names :
        call' = [fn |-> "build_candidates", geocode_name |-> g,
                 site_name |-> n, out |-> build_candidates(g, n)]
    /\ UNCHANGED <<cacheFile, outFile, pc, variant, columns, rows, cache,
                   features, candidates, ci, log, runs, past, csv, prev>>

SpecCandidates == Init /\ [][CallBuildCandidates]_vars

(***************************************************************************)
(* square_polygon called on its own, and the two features built around it, *)
(* on any latitude of Lats and longitude of Lons.                          *)
(***************************************************************************)
Lats ==
    {Thousandths(t) :
        t \in {-90000, -39000, -10, -1, 0, 1, 10, 15, 38990, 39000, 90000}}
    \cup {Infinity(1)}

Lons ==
    {Thousandths(t) :
        t \in {-180000, -75300, -15, -1, 0, 1, 10, 15, 39000, 75300, 180000}}
    \cup {Infinity(-1)}

CallSquarePolygon ==
    /\ \E lat \in Lats, lon \in Lons :
        call' = [fn |-> "square_polygon", lat |-> lat, lon |-> lon,
                 out |-> square_polygon(lat, lon),
                 features |-> SiteFeatures(RowSmith, lat, lon)]
    /\ UNCHANGED <<cacheFile, outFile, pc, variant, columns, rows, cache,
                   features, candidates, ci, log, runs, past, csv, prev>>

SpecPolygon == Init /\ [][CallSquarePolygon]_vars

(***************************************************************************)
(* The two resolvers called on their own on one query: geocode(query, c1)  *)
(* and geocode_with_fallbacks([query], c2), with the same answer from the  *)
(* provider, on caches that hold the same thing for the query, each under  *)
(* the key its resolver looks up: nothing, a not-found or a match.         *)
(***************************************************************************)
Queries ==
    { <<>>, <<" ">>, <<"a">>, <<" ", "a">>, <<"a", " ">>, <<"a", " ", "b">>,
      <<"a", "\r">>, <<"U+00A0">>,
      Name_a \o CommaDelawareUSA, SmithPier \o CommaDelawareUSA }

StoredMatch ==
    [lat |-> <<"3", "8", ".", "5">>, lon |-> <<"-", "7", "5", ".", "1">>,
     display_name |-> <<"y">>]

\* an entry of another query, in the cache or not
OtherEntries == {EmptyDict, DictSet(EmptyDict, Md5(<<"z">>), None)}

CachedStates == {"absent", "not_found", "match"}

\* the cache c with the query's entry in the given state under key k
Seeded(c, k, state, value) ==
    IF state = "absent" THEN c
    ELSE IF state = "not_found" THEN DictSet(c, k, None)
    ELSE DictSet(c, k, value)

CallResolvers ==
    /\ \E query \in Queries, state \in CachedStates, answer \in Answers,
          other \in OtherEntries :
        LET c1 == Seeded(other, geocode_key(query), state,
                         ClamResult(<<StoredMatch>>))
            c2 == Seeded(other, cache_key(Strip(query), ContextTag), state,
                         CrabResult(<<StoredMatch>>, Strip(query)))
        IN  call' = [fn |-> "resolvers", query |-> query, cached |-> state,
                     answer |-> answer, c1 |-> c1, c2 |-> c2,
                     clam |-> geocode(query, c1, answer),
                     crab |-> geocode_with_fallbacks(<<query>>, c2,
                                 [q \in {Strip(query)} |-> answer])]
    /\ UNCHANGED <<cacheFile, outFile, pc, variant, columns, rows, cache,
                   features, candidates, ci, log, runs, past, csv, prev>>

SpecResolvers == Init /\ [][CallResolvers]_vars

(***************************************************************************)
(* The same program run, and run again, on one input file: df is the same  *)
(* sequence of rows in every run.                                          *)
(***************************************************************************)
InitFile ==
    /\ InitProgram
    /\ csv \in FixedFiles

SpecFile == InitFile /\ [][Next]_vars

(***************************************************************************)
(* The program run on a one-row file whose lat and lon cells are any pair  *)
(* of LatCells and LonCells.                                               *)
(***************************************************************************)
InitCells ==
    /\ InitProgram
    /\ csv \in CellFiles

SpecCells == InitCells /\ [][Next]_vars

(***************************************************************************)
(* Vocabulary of the properties.                                           *)
(***************************************************************************)
\* the events the step under consideration appends to the log
NewEvents ==
    IF Running THEN SubSeq(log', Len(log) + 1, Len(log')) ELSE log'

\* the event carries a cache key
HasKey(e) == e.ev \in {"lookup", "hit", "request"}

\* a candidate yields a result: a match from the provider or a cached match
YieldsResult(e) ==
    \/ e.ev = "request" /\ e.outcome = "match"
    \/ e.ev = "hit" /\ e.value.py = "dict"

\* the entries of the cache file, none when the file does not exist
FileEntries(f) == IF f.file = "absent" THEN <<>> ELSE f.entries

\* every key of c is a key of d with the same value
SubDict(c, d) == \A k \in DOMAIN c : k \in DOMAIN d /\ d[k] = c[k]

\* the keys of the candidates of a crabbing row, in order
CandidateKeys(row) ==
    LET cs == build_candidates(Strip(row.geocode_name), Strip(row.site_name))
    IN  [i \in 1..Len(cs) |-> cache_key(Strip(cs[i]), ContextTag)]

(***************************************************************************)
(* C1.  Within one run, a request is issued only for a key that is not in  *)
(* the in-memory cache and that no earlier request of the run was for: at  *)
(* most one request per key per run.                                       *)
(***************************************************************************)
C1_Step ==
    \A n \in 1..Len(NewEvents) :
        NewEvents[n].ev = "request" =>
            /\ NewEvents[n].key \notin DOMAIN cache
            /\ \A i \in 1..Len(log) :
                Running /\ log[i].ev \in {"request", "hit"}
                    => log[i].key # NewEvents[n].key

C1_OneRequestPerKey == [][C1_Step]_vars

\* a key requested in this run was looked up again later and served from
\* the cache
C1_Witness ==
    \E i \in 1..Len(log) : \E j \in (i + 1)..Len(log) :
        /\ log[i].ev = "request"
        /\ log[j].ev = "hit"
        /\ log[j].key = log[i].key

(***************************************************************************)
(* C2.  As claimed: no run requests a key whose lookup gave not-found in   *)
(* any earlier run.                                                        *)
(***************************************************************************)
C2_NoRequestAfterAnyRun ==
    \A j \in 1..Len(log) :
        log[j].ev = "request" => \A p \in past : p.key # log[j].key

(***************************************************************************)
(* C2, amended.  No run requests a key whose lookup gave not-found in an   *)
(* earlier run that completed normally: save_cache wrote the marker and    *)
(* load_cache reads it back as a present key.                              *)
(***************************************************************************)
C2_NoRequestAfterSavedRun ==
    \A j \in 1..Len(log) :
        log[j].ev = "request"
            => [key |-> log[j].key, saved |-> TRUE] \notin past

\* a later run looked up a key saved as not-found and was answered None from
\* the cache
C2_Witness ==
    \E j \in 1..Len(log) :
        /\ log[j].ev = "hit"
        /\ log[j].value.py = "None"
        /\ [key |-> log[j].key, saved |-> TRUE] \in past

(***************************************************************************)
(* C3.  As claimed: in the crabbing variant a row is printed NOT FOUND     *)
(* only when none of its candidates has a match; a row with a candidate    *)
(* known to match is resolved.                                             *)
(***************************************************************************)
C3_UnresolvedOnlyWithoutMatch ==
    variant = "crabbing" =>
        \A j \in 1..Len(log) :
            log[j].ev = "print_not_found" =>
                LET ks == CandidateKeys(rows[log[j].idx])
                IN  \A i \in DOMAIN ks :
                        ~(ks[i] \in DOMAIN cache /\ cache[ks[i]].py = "dict")

(***************************************************************************)
(* C4.  In geocode_with_fallbacks, once a candidate yields a result the    *)
(* resolver returns: the next thing the run does is the sleep of main, no  *)
(* later candidate is looked up, requested or cached, every earlier        *)
(* candidate gave not-found, and the features of the row are built from    *)
(* the result of that first yielding candidate.                            *)
(***************************************************************************)
C4_ReturnsAtOnce ==
    \A j \in 1..Len(log) :
        YieldsResult(log[j]) => j < Len(log) /\ log[j + 1].ev = "sleep"

C4_Step ==
    (variant = "crabbing" /\ pc = "resolve" /\ pc' = "loop"
        /\ Len(features') > Len(features))
    => LET ks == CandidateKeys(CurrentRow)
       IN  /\ ci \in DOMAIN ks
           /\ ks[ci] \in DOMAIN cache'
           /\ cache'[ks[ci]].py = "dict"
           /\ features' = features \o SiteFeatures(CurrentRow,
                              cache'[ks[ci]].lat, cache'[ks[ci]].lon)
           /\ \A i \in 1..(ci - 1) :
                ks[i] \in DOMAIN cache' /\ cache'[ks[i]].py = "None"
           /\ \A i \in (ci + 1)..Len(ks) :
                /\ ks[i] \in DOMAIN cache' <=> ks[i] \in DOMAIN cache
                /\ \A n \in 1..Len(NewEvents) :
                    HasKey(NewEvents[n]) => NewEvents[n].key # ks[i]

C4_ShortCircuit == [](C4_ReturnsAtOnce) /\ [][C4_Step]_vars

\* the resolver has just returned a match found in the cache at a candidate
\* that is neither the first nor the last of the row
C4_Witness ==
    /\ variant = "crabbing"
    /\ pc = "loop"
    /\ Len(log) >= 2
    /\ log[Len(log)].ev = "sleep"
    /\ log[Len(log) - 1].ev = "hit"
    /\ log[Len(log) - 1].value.py = "dict"
    /\ ci > 1
    /\ ci < Len(candidates)

(***************************************************************************)
(* C5.  As claimed: between any two requests of a run there is a sleep.    *)
(***************************************************************************)
C5_DelayBetweenRequests ==
    \A i \in 1..Len(log) : \A j \in (i + 1)..Len(log) :
        log[i].ev = "request" /\ log[j].ev = "request"
            => \E d \in (i + 1)..(j - 1) : log[d].ev = "sleep"

(***************************************************************************)
(* C6.  As claimed: a sleep is executed only after a lookup that issued a  *)
(* request, that is, some request lies between the row marker of the       *)
(* iteration and its sleep.                                                *)
(***************************************************************************)
C6_DelayOnlyAfterRequest ==
    \A d \in 1..Len(log) :
        log[d].ev = "sleep" =>
            \E i \in 1..(d - 1) :
                /\ log[i].ev = "request"
                /\ \A m \in (i + 1)..(d - 1) : log[m].ev # "row"

(***************************************************************************)
(* C7.  The cache only grows.  Every step keeps every entry of the cache   *)
(* file with its value; every step inside a run keeps every entry of the   *)
(* in-memory cache with its value; and while a run is in progress the      *)
(* in-memory cache holds every entry of the file.                          *)
(***************************************************************************)
C7_Step ==
    /\ SubDict(FileEntries(cacheFile), FileEntries(cacheFile'))
    /\ Running => SubDict(cache, cache')
    /\ pc' \in {"loop", "resolve"} =>
        \A k \in DOMAIN FileEntries(cacheFile') :
            /\ k \in DOMAIN cache'
            /\ ToJson(cache'[k]) = FileEntries(cacheFile')[k]

C7_CacheMonotone == [][C7_Step]_vars

\* a crabbing run completed on a file that already held a clamming entry and
\* saved crabbing entries next to it
C7_Witness ==
    /\ pc = "done"
    /\ variant = "crabbing"
    /\ \E r \in Rows : geocode_key(ClamQuery(r)) \in DOMAIN FileEntries(cacheFile)
    /\ \E r \in Rows : \E i \in DOMAIN CandidateKeys(r) :
        CandidateKeys(r)[i] \in DOMAIN FileEntries(cacheFile)

(***************************************************************************)
(* C8.  A failed request ends the run where it happens and is not retried: *)
(* the failed request is the last thing the run did and the only request   *)
(* of the run for its key, nothing was saved or written, no step other     *)
(* than normal completion changes the cache file or an output file, and    *)
(* after the failure nothing happens but the start of a new run.           *)
(***************************************************************************)
C8_Crashed ==
    pc = "crashed" =>
        /\ log # <<>>
        /\ log[Len(log)].ev = "request"
        /\ log[Len(log)].outcome = "error"
        /\ \A i \in 1..(Len(log) - 1) :
            /\ log[i].ev \notin {"save_cache", "write_geojson"}
            /\ log[i].ev = "request" => log[i].key # log[Len(log)].key

C8_FilesKept == pc' # "done" => UNCHANGED <<cacheFile, outFile>>

\* the step after a failure starts a run: one that loads the cache, or one
\* that the column check ends
C8_RunOver ==
    pc = "crashed" =>
        /\ rows' = <<>>
        /\ \/ pc' = "loop" /\ log' = <<EvLoad>>
           \/ pc' = "rejected" /\ log' = <<>>

C8_FailedRequestEndsRun ==
    [](C8_Crashed) /\ [][C8_FilesKept /\ C8_RunOver]_vars

\* a run failed after it had processed a row and put entries in the
\* in-memory cache that the file does not hold
C8_Witness ==
    /\ pc = "crashed"
    /\ Len(rows) >= 2
    /\ \E k \in DOMAIN cache : k \notin DOMAIN FileEntries(cacheFile)

(***************************************************************************)
(* C9.  In the crabbing variant, the step that takes a row whose lat and   *)
(* lon columns exist and whose two cells are present and parse appends the *)
(* polygon around and the point at exactly (lat, lon), stays at the top of *)
(* the loop, leaves the cache as it is and does nothing else: the log      *)
(* gains the row marker only, no lookup, no request, no sleep.             *)
(***************************************************************************)
ValidManual(row, cols) ==
    /\ {"lat", "lon"} \subseteq cols
    /\ row.lat.cell # "nan"
    /\ row.lon.cell # "nan"
    /\ Float(row.lat).ok
    /\ Float(row.lon).ok

C9_Step ==
    (variant = "crabbing" /\ pc = "loop" /\ Len(rows') = Len(rows) + 1
        /\ ValidManual(rows'[Len(rows')], columns))
    => LET r == rows'[Len(rows')]
           lat == Float(r.lat).val
           lon == Float(r.lon).val
           n == Len(features)
       IN  /\ pc' = "loop"
           /\ cache' = cache
           /\ log' = Append(log, EvRow(Len(rows')))
           /\ Len(features') = n + 2
           /\ SubSeq(features', 1, n) = features
           /\ features'[n + 1].geometry.type = "Polygon"
           /\ features'[n + 1].geometry.coordinates = <<square_polygon(lat, lon)>>
           /\ features'[n + 2].geometry.type = "Point"
           /\ features'[n + 2].geometry.coordinates = <<lon, lat>>
           /\ UNCHANGED <<cacheFile, outFile>>

C9_ManualBypass == [][C9_Step]_vars

\* a row with valid manual coordinates has just been processed while the
\* cache held an entry, a match, for the first candidate of that row
C9_Witness ==
    /\ variant = "crabbing"
    /\ pc = "loop"
    /\ rows # <<>>
    /\ log[Len(log)].ev = "row"
    /\ ValidManual(CurrentRow, columns)
    /\ CandidateKeys(CurrentRow)[1] \in DOMAIN cache
    /\ cache[CandidateKeys(CurrentRow)[1]].py = "dict"
    /\ Len(features) = 2

(***************************************************************************)
(* C10.  At normal completion the written feature collection holds, for    *)
(* the rows not printed NOT FOUND and in their order, a polygon feature    *)
(* followed by a point feature, both with the zone_id, zone_name and       *)
(* site_name of the row, and nothing else: twice as many features as       *)
(* resolved rows.                                                          *)
(***************************************************************************)
Unresolved(i) ==
    \E j \in 1..Len(log) : log[j].ev = "print_not_found" /\ log[j].idx = i

\* the indices of the resolved rows from i on, in order
RECURSIVE ResolvedFrom(_)
ResolvedFrom(i) ==
    IF i > Len(rows) THEN <<>>
    ELSE (IF Unresolved(i) THEN <<>> ELSE <<i>>) \o ResolvedFrom(i + 1)

SameSite(f, row) ==
    /\ f.type = "Feature"
    /\ f.properties.zone_id = Strip(row.zone_id)
    /\ f.properties.zone_name = Strip(row.zone_name)
    /\ f.properties.site_name = Strip(row.site_name)

C10_TwoFeaturesPerResolvedRow ==
    pc = "done" =>
        /\ outFile[variant].file = "json"
        /\ LET out == outFile[variant].geo.features
               res == ResolvedFrom(1)
           IN  /\ Len(out) = 2 * Len(res)
               /\ \A n \in 1..Len(res) :
                    /\ 2 * n <= Len(out)
                    /\ SameSite(out[2 * n - 1], rows[res[n]])
                    /\ out[2 * n - 1].geometry.type = "Polygon"
                    /\ SameSite(out[2 * n], rows[res[n]])
                    /\ out[2 * n].geometry.type = "Point"

\* a run completed with an unresolved row followed by a resolved one
C10_Witness ==
    /\ pc = "done"
    /\ Len(rows) = 2
    /\ Unresolved(1)
    /\ ~Unresolved(2)
    /\ Len(outFile[variant].geo.features) = 2

(***************************************************************************)
(* C11.  The worked example.  The crabbing script is run for the first     *)
(* time, with no cache file, on the file whose one row is Z1, North Bay,   *)
(* Smith Landing, Smith Pier, and the provider answers "Smith Pier" with   *)
(* nothing and "Smith Pier, DE" with the match at lat 39.0, lon -75.3.     *)
(* When the run completes, the written collection holds exactly the        *)
(* polygon with ring (-75.315,38.99),(-75.285,38.99),(-75.285,39.01),      *)
(* (-75.315,39.01),(-75.315,38.99) and then the point at [-75.3, 39.0],    *)
(* both with zone_id Z1, and the run issued exactly two requests.          *)
(***************************************************************************)
Requests(l) == {j \in 1..Len(l) : l[j].ev = "request"}

\* every request of the run was answered as the provider of the example does
ProviderOfExample ==
    \A j \in Requests(log) :
        /\ log[j].query = SmithPier => log[j].outcome = "empty"
        /\ log[j].query = SmithPier \o CommaDE => log[j].outcome = "match"

ExampleRun ==
    /\ pc = "done"
    /\ variant = "crabbing"
    /\ runs = 1
    /\ csv = FixedCsv(<<RowSmith>>)
    /\ ProviderOfExample

ExampleRing ==
    << <<Thousandths(-75315), Thousandths(38990)>>,
       <<Thousandths(-75285), Thousandths(38990)>>,
       <<Thousandths(-75285), Thousandths(39010)>>,
       <<Thousandths(-75315), Thousandths(39010)>>,
       <<Thousandths(-75315), Thousandths(38990)>> >>

C11_WorkedExample ==
    ExampleRun =>
        LET out == outFile["crabbing"].geo.features
        IN  /\ Len(out) = 2
            /\ out[1].geometry = [type |-> "Polygon",
                                  coordinates |-> <<ExampleRing>>]
            /\ out[1].properties.zone_id = <<"Z", "1">>
            /\ out[2].geometry = [type |-> "Point",
                                  coordinates |-> <<Thousandths(-75300), Thousandths(39000)>>]
            /\ out[2].properties.zone_id = <<"Z", "1">>
            /\ Cardinality(Requests(log)) = 2
            /\ \E i, j \in Requests(log) :
                /\ i < j
                /\ log[i].query = SmithPier
                /\ log[j].query = SmithPier \o CommaDE

\* the run of the example completed, the file having no lat / lon columns
C11_Witness ==
    /\ ExampleRun
    /\ columns = PlainColumns
    /\ Cardinality(Requests(log)) = 2
    /\ Len(outFile["crabbing"].geo.features) = 2

(***************************************************************************)
(* C12.  For every geocode name and site name, what build_candidates       *)
(* returns has no duplicate and no blank entry; every entry is normalised  *)
(* (single spaces between words, none around); the entries are exactly the *)
(* normalised non-blank templates, each at the place of its first          *)
(* occurrence in the template order: raw name; raw name with ", DE", with  *)
(* ", Delaware"; site name with ", DE", with ", Delaware"; then the        *)
(* Pier / Bridge stripped variants.  For ("Smith Pier", "Smith Landing")   *)
(* the result is always the same sequence, starting "Smith Pier",          *)
(* "Smith Pier, DE".                                                       *)
(***************************************************************************)
\* no whitespace but single spaces between words
WellSpaced(c) ==
    /\ c # <<>>
    /\ Head(c) # " "
    /\ c[Len(c)] # " "
    /\ \A i \in 1..Len(c) : c[i] \in Whitespace => c[i] = " "
    /\ \A i \in 1..(Len(c) - 1) : ~(c[i] = " " /\ c[i + 1] = " ")

\* the text with its whitespace removed
RECURSIVE Letters(_)
Letters(c) ==
    IF c = <<>> THEN <<>>
    ELSE (IF Head(c) \in Whitespace THEN <<>> ELSE <<Head(c)>>) \o Letters(Tail(c))

\* c is the template t normalised: same letters, word breaks at the same
\* places, and well spaced
NormalOf(c, t) ==
    /\ WellSpaced(c)
    /\ Letters(c) = Letters(t)
    /\ Split(c) = Split(t)

\* the first place of the template list whose normalised text is c, 0 if none
FirstPlace(c, ts) ==
    IF \E i \in 1..Len(ts) : NormalOf(c, ts[i])
    THEN CHOOSE i \in 1..Len(ts) :
            /\ NormalOf(c, ts[i])
            /\ \A j \in 1..(i - 1) : ~NormalOf(c, ts[j])
    ELSE 0

SmithCandidates ==
    << SmithPier, SmithPier \o CommaDE, SmithPier \o CommaDelaware,
       SmithLanding \o CommaDE, SmithLanding \o CommaDelaware,
       Smith, SmithLanding >>

C12_CandidatesOrdered ==
    call.fn = "build_candidates" =>
        LET out == call.out
            base == Strip(call.geocode_name)
            ts == CandidateTemplates(call.geocode_name, call.site_name)
        IN  /\ \A i, j \in 1..Len(out) : i # j => out[i] # out[j]
            /\ \A i \in 1..Len(out) :
                /\ Strip(out[i]) # <<>>
                /\ WellSpaced(out[i])
                /\ FirstPlace(out[i], ts) # 0
            /\ \A i, j \in 1..Len(out) :
                i < j => FirstPlace(out[i], ts) < FirstPlace(out[j], ts)
            /\ \A k \in 1..Len(ts) :
                Letters(ts[k]) # <<>> =>
                    \E i \in 1..Len(out) : NormalOf(out[i], ts[k])
            /\ Len(ts) = 10
            /\ ts[1] = base
            /\ ts[2] = base \o CommaDE
            /\ ts[3] = base \o CommaDelaware
            /\ ts[4] = call.site_name \o CommaDE
            /\ ts[5] = call.site_name \o CommaDelaware
            /\ (call.geocode_name = SmithPier /\ call.site_name = SmithLanding)
                => out = SmithCandidates

\* called on two names that differ in their spacing only, where templates
\* coincide once normalised
C12_Witness ==
    /\ call.fn = "build_candidates"
    /\ call.geocode_name = <<"a", " ", " ", "b">>
    /\ call.site_name = <<"a", " ", "b">>
    /\ Len(call.out) = 3

(***************************************************************************)
(* C13.  In the crabbing variant, the step that takes a row whose manual   *)
(* coordinates are not both present and parseable (a cell missing, a cell  *)
(* that is no number, or no lat / lon columns at all) does not fail and    *)
(* uses neither cell: it enters the resolver with the candidates of the    *)
(* row's names, adds no feature and leaves the cache alone, whatever the   *)
(* cells hold; and the features such a row gets when the resolver returns  *)
(* are the ones of a cached result, not of the cells.                      *)
(***************************************************************************)
C13_Enter ==
    (variant = "crabbing" /\ pc = "loop" /\ Len(rows') = Len(rows) + 1
        /\ ~ValidManual(rows'[Len(rows')], columns))
    => LET r == rows'[Len(rows')]
       IN  /\ pc' = "resolve"
           /\ candidates' = build_candidates(Strip(r.geocode_name),
                                             Strip(r.site_name))
           /\ ci' = 1
           /\ features' = features
           /\ cache' = cache
           /\ log' = Append(log, EvRow(Len(rows')))
           /\ UNCHANGED <<cacheFile, outFile>>

C13_Return ==
    (variant = "crabbing" /\ pc = "resolve" /\ pc' = "loop")
    => /\ ~ValidManual(CurrentRow, columns)
       /\ \/ features' = features
          \/ \E i \in DOMAIN CandidateKeys(CurrentRow) :
                LET k == CandidateKeys(CurrentRow)[i]
                IN  /\ k \in DOMAIN cache'
                    /\ cache'[k].py = "dict"
                    /\ features' = features \o SiteFeatures(CurrentRow,
                                       cache'[k].lat, cache'[k].lon)

C13_InvalidManualResolved == [][C13_Enter /\ C13_Return]_vars

\* a crabbing run completed on a file with both columns whose row has a
\* number for its latitude and nothing for its longitude; the row was
\* resolved by the provider
C13_Witness ==
    /\ pc = "done"
    /\ variant = "crabbing"
    /\ columns = ManualColumns
    /\ Len(rows) = 1
    /\ rows[1].lat = NumCell(Thousandths(39100))
    /\ rows[1].lon = NaNCell
    /\ Len(features) = 2
    /\ features[2].geometry.coordinates = <<Thousandths(-75300), Thousandths(39000)>>

(***************************************************************************)
(* C14.  For every latitude and longitude, the ring square_polygon returns *)
(* has exactly 5 points, each a pair [longitude, latitude]; its first and  *)
(* last points are the same; its corners are, in order, (lon-dlon,         *)
(* lat-dlat), (lon+dlon, lat-dlat), (lon+dlon, lat+dlat), (lon-dlon,       *)
(* lat+dlat) with the half extents 0.01 of latitude and 0.015 of           *)
(* longitude; the polygon feature of a site carries that ring and the      *)
(* point feature of the site lies at [lon, lat].                           *)
(***************************************************************************)
C14_ClosedRing ==
    call.fn = "square_polygon" =>
        LET ring == call.out
            lat == call.lat
            lon == call.lon
        IN  /\ Len(ring) = 5
            /\ \A i \in 1..Len(ring) : Len(ring[i]) = 2
            /\ ring[1] = ring[Len(ring)]
            /\ ring[1] = <<Minus(lon, Thousandths(15)), Minus(lat, Thousandths(10))>>
            /\ ring[2] = <<Plus(lon, Thousandths(15)), Minus(lat, Thousandths(10))>>
            /\ ring[3] = <<Plus(lon, Thousandths(15)), Plus(lat, Thousandths(10))>>
            /\ ring[4] = <<Minus(lon, Thousandths(15)), Plus(lat, Thousandths(10))>>
            /\ Len(call.features) = 2
            /\ call.features[1].geometry =
                   [type |-> "Polygon", coordinates |-> <<ring>>]
            /\ call.features[2].geometry =
                   [type |-> "Point", coordinates |-> <<lon, lat>>]

\* called on the coordinates of the worked example
C14_Witness ==
    /\ call.fn = "square_polygon"
    /\ call.lat = Thousandths(39000)
    /\ call.lon = Thousandths(-75300)
    /\ call.out[5] = <<Thousandths(-75315), Thousandths(38990)>>
    /\ call.features[2].geometry.coordinates = <<Thousandths(-75300), Thousandths(39000)>>

(***************************************************************************)
(* C15.  As claimed: for every query, cache state and answer of the        *)
(* provider, geocode(query, cache) and the fallback resolver on [query]    *)
(* raise or return alike, with the same found / not-found outcome and the  *)
(* same coordinates; they send the same number of requests, none when the  *)
(* key is cached and one otherwise; and they add the same entry to the     *)
(* cache, under md5(query) for the one and md5(query|DE_VIEWBOX_US) for    *)
(* the other, the values differing in query_used only.                     *)
(***************************************************************************)
Added(before, after) == {k \in DOMAIN after : k \notin DOMAIN before}

\* the value the fallback resolver stores is the one geocode stores, with
\* query_used next to it
SameEntry(v1, v2, query) ==
    /\ v1.py = v2.py
    /\ v1.py = "dict" =>
        /\ v2 = [py |-> "dict", lat |-> v1.lat, lon |-> v1.lon,
                 display_name |-> v1.display_name, query_used |-> query]

ResolversAgree ==
    LET a == call.clam
        b == call.crab
        q == call.query
        k1 == geocode_key(q)
        k2 == cache_key(q, ContextTag)
        adds == call.cached = "absent" /\ call.answer.ok
    IN  /\ a.raised = b.raised
        /\ a.result.py = b.result.py
        /\ a.result.py = "dict" =>
            /\ a.result.lat = b.result.lat
            /\ a.result.lon = b.result.lon
            /\ a.result.display_name = b.result.display_name
        /\ Len(a.requests) = Len(b.requests)
        /\ Len(a.requests) = IF call.cached = "absent" THEN 1 ELSE 0
        /\ SubDict(call.c1, a.cache)
        /\ SubDict(call.c2, b.cache)
        /\ Added(call.c1, a.cache) = IF adds THEN {k1} ELSE {}
        /\ Added(call.c2, b.cache) = IF adds THEN {k2} ELSE {}
        /\ adds => SameEntry(a.cache[k1], b.cache[k2], q)

C15_SameForEveryQuery ==
    call.fn = "resolvers" => ResolversAgree

(***************************************************************************)
(* C15, amended.  The same, for every query that is not blank and has no   *)
(* whitespace around it, as every query the clamming main builds is (the   *)
(* stripped geocode name followed by ", Delaware, USA"): the fallback      *)
(* resolver strips each candidate and skips a blank one before it looks    *)
(* anything up, geocode does neither.                                      *)
(***************************************************************************)
CleanQuery(q) == q # <<>> /\ Strip(q) = q

C15_SameForCleanQuery ==
    (call.fn = "resolvers" /\ CleanQuery(call.query)) => ResolversAgree

\* both resolvers were called on a query of the clamming main that neither
\* cache held, the provider answered with a match, and each stored it
C15_Witness ==
    /\ call.fn = "resolvers"
    /\ call.query = SmithPier \o CommaDelawareUSA
    /\ call.cached = "absent"
    /\ call.clam.result.py = "dict"
    /\ call.crab.result.py = "dict"
    /\ Len(call.crab.requests) = 1
    /\ cache_key(call.query, ContextTag) \in DOMAIN call.crab.cache

(***************************************************************************)
(* C16.  As claimed: when a run completed normally and the same script is  *)
(* run next on the same file (same rows, same columns), with the cache     *)
(* file the first run saved, the second run writes the feature collection  *)
(* the first run wrote.                                                    *)
(***************************************************************************)
\* the run in progress or just over is a re-run: the run before it was of
\* the same script on the same file and completed normally
IsRerun ==
    /\ prev.run = "completed"
    /\ prev.variant = variant
    /\ prev.columns = columns

C16_Step ==
    (IsRerun /\ pc = "loop" /\ pc' = "done")
        => outFile'[variant] = outFile[variant]

C16_RerunSameOutput == [][C16_Step]_vars

(***************************************************************************)
(* C17.  A re-run (the run before it was of the same script on the same    *)
(* file and completed normally) issues no request and does not fail:       *)
(* every lookup it makes finds its key in the cache, so that every row     *)
(* either has valid manual coordinates or is answered from the cache at    *)
(* its first candidate.                                                    *)
(***************************************************************************)
C17_RerunNoRequest ==
    IsRerun =>
        /\ pc \notin {"crashed", "rejected"}
        /\ \A j \in 1..Len(log) :
            /\ log[j].ev # "request"
            /\ log[j].ev = "lookup" => log[j].present
        /\ \A i \in 1..Len(rows) :
            \/ variant = "crabbing" /\ ValidManual(rows[i], columns)
            \/ i = Len(rows) /\ pc = "resolve"
            \/ \E j \in 1..(Len(log) - 2) :
                /\ log[j] = EvRow(i)
                /\ log[j + 1].ev = "lookup"
                /\ log[j + 2].ev = "hit"
                /\ log[j + 1].key =
                       IF variant = "crabbing" THEN CandidateKeys(rows[i])[1]
                       ELSE geocode_key(ClamQuery(rows[i]))

\* a crabbing re-run completed on the file of the two rows, with both
\* columns: the first row was answered from the cache, the second has
\* manual coordinates
C17_Witness ==
    /\ IsRerun
    /\ pc = "done"
    /\ variant = "crabbing"
    /\ columns = ManualColumns
    /\ csv = FixedCsv(<<RowSmith, RowManual>>)
    /\ \E j \in 1..Len(log) : log[j].ev = "hit"
    /\ Len(features) >= 2

====
